---- MODULE Spec2Model ----
(***************************************************************************)
(* Model of src/code/configurable_system.py: the DIMACS loader, the        *)
(* ConfigSystemAnalyzer constructor (variable order, BDD construction) and *)
(* its reports (i)-(v), with the uniform sampler.                          *)
(*                                                                         *)
(* Python indices are kept: variables, levels and tuple positions are      *)
(* 0-based, so a Python list or tuple of length n is a function on         *)
(* 0..n-1.  Clauses and lines, which are only iterated, are sequences.     *)
(*                                                                         *)
(* The OxiDD diagrams are modelled by what a reduced ordered BDD is: a     *)
(* node is identified with the Boolean function it represents, written in  *)
(* canonical form as its essential support and the satisfying assignments  *)
(* over that support.  Equal functions are the same node, the level of a   *)
(* node is the smallest level of a variable in its support, and its two    *)
(* children are the cofactors for that variable.                           *)
(***************************************************************************)
EXTENDS Integers, Sequences, FiniteSets, TLC

VARIABLES
    file,              \* content of the DIMACS file at file_path: a sequence of lines
    pc,                \* position of the program
    num_vars,          \* self.num_vars
    clauses,           \* self.clauses
    var_order,         \* var_order returned by parse_dimacs (<<>> models None)
    order,             \* the manager's variable order: level -> variable
    phi_bdd,           \* self.phi_bdd
    res_i, res_ii, res_iv, res_v,      \* values returned by the reports
    iv_i, iv_j, total_interactions,    \* loop state of report_iv
    sat_tests,         \* number of satisfiable() calls made by report_iv so far
    universe,          \* uncovered as it was when the cover loop of report_v started
    uncovered, cover_set, pair_to_cover,   \* locals of report_v
    bdd_func, current, assignment, processed_levels, solution,  \* locals of _sample_one_uniform
    caller,            \* who called _sample_one_uniform
    path_num, path_den, \* product of the branch fractions taken by the sampler so far
    todo,              \* the report calls still to be made on the analyzer, in order
    urs_k, var_index_1_based,          \* arguments k and var_index_1_based of report_iii
    attempts, samples, \* loop counter and the set samples of report_iii
    res_iii,           \* value returned by report_iii
    batch,             \* files_to_process: for each name, whether the file exists and its content
    file_idx,          \* position in files_to_process of the file being processed
    all_results,       \* all_results, keyed by position in files_to_process
    build_phi,         \* the local phi of _build_bdd
    build_pos          \* number of clauses the loop of _build_bdd has gone through

analyzer == <<file, num_vars, clauses, var_order, order, phi_bdd>>
results  == <<res_i, res_ii, res_iv, res_v>>
ivstate  == <<iv_i, iv_j, total_interactions, sat_tests>>
vstate   == <<universe, uncovered, cover_set, pair_to_cover>>
sstate   == <<bdd_func, current, assignment, processed_levels, solution, caller,
              path_num, path_den>>
ursstate == <<urs_k, var_index_1_based, attempts, samples, res_iii>>
bstate   == <<batch, file_idx, all_results>>
bldstate == <<build_phi, build_pos>>
vars     == <<file, pc, num_vars, clauses, var_order, order, phi_bdd,
              res_i, res_ii, res_iv, res_v, iv_i, iv_j, total_interactions, sat_tests,
              universe, uncovered, cover_set, pair_to_cover,
              bdd_func, current, assignment, processed_levels, solution, caller,
              path_num, path_den,
              todo, urs_k, var_index_1_based, attempts, samples, res_iii,
              batch, file_idx, all_results, build_phi, build_pos>>

----------------------------------------------------------------------------
(* Bounds of the model *)

MaxVars      == 3     \* largest variable id used in the enumerated files
MaxClauses   == 2     \* clause lines per enumerated file
MaxClauseLen == 2     \* literals per enumerated clause line
MaxVoLen     == 1     \* ids on an enumerated 'c vo' line
MaxCover     == 4     \* cap on len(cover_set) in the cover loop
BigVars      == 51    \* variable count of the large formulas (more than 50 variables)

None == -1            \* the None returned by node_level() for a terminal
NoResult == -2        \* a report that has not returned yet

\* what _sample_one_uniform returns: None, or a tuple
\* report_iii has not returned; the strings it returns
NoRatio == [form |-> "none", k1 |-> 0, k0 |-> 0]
Ratio(k1, k0) == [form |-> "k1/k0", k1 |-> k1, k0 |-> k0]
RatioInf(k1) == [form |-> "k1/0 (inf)", k1 |-> k1, k0 |-> 0]
RatioNA == [form |-> "N/A (Variable not in model)", k1 |-> 0, k0 |-> 0]
NoSample == [some |-> FALSE, val |-> <<>>]
Sample(t) == [some |-> TRUE, val |-> t]
\* Python's truth value of it: None and the empty tuple are false
Truthy(sol) == sol.some /\ DOMAIN sol.val # {}

Bits == {0, 1}
Range(n) == 0 .. (n - 1)
Abs(x) == IF x < 0 THEN -x ELSE x
Max2(a, b) == IF a >= b THEN a ELSE b
Min2(a, b) == IF a <= b THEN a ELSE b
SetMin(S) == CHOOSE x \in S : \A y \in S : x <= y
SetMax(S) == CHOOSE x \in S : \A y \in S : x >= y
Pow2(n) == IF n <= 0 THEN 1 ELSE 2 ^ n
SeqToList(s) == [k \in Range(Len(s)) |-> s[k + 1]]
----------------------------------------------------------------------------
(* The decision-diagram service (oxidd.bdd), by its semantics *)

Asg(S) == [S -> Bits]
Restrict(a, S) == [v \in S |-> a[v]]
Essential(S, T) == {v \in S : \E a \in T : [a EXCEPT ![v] = 1 - a[v]] \notin T}
Norm(S, T) ==
    LET E == Essential(S, T)
    IN  [sup |-> E, sat |-> {Restrict(a, E) : a \in T}]

BddTrue  == [sup |-> {}, sat |-> {<<>>}]
BddFalse == [sup |-> {}, sat |-> {}]
BddVar(i) == [sup |-> {i}, sat |-> {[v \in {i} |-> 1]}]
BddNot(f) == [sup |-> f.sup, sat |-> Asg(f.sup) \ f.sat]
BddAnd(f, g) ==
    LET S == f.sup \cup g.sup
    IN  Norm(S, {a \in Asg(S) : Restrict(a, f.sup) \in f.sat /\ Restrict(a, g.sup) \in g.sat})
BddOr(f, g) ==
    LET S == f.sup \cup g.sup
    IN  Norm(S, {a \in Asg(S) : Restrict(a, f.sup) \in f.sat \/ Restrict(a, g.sup) \in g.sat})
Satisfiable(f) == f.sat # {}

\* the value of f under a total (or wide enough) assignment a
Eval(f, a) == Restrict(a, f.sup) \in f.sat

LevelOf(ord, v) == CHOOSE l \in DOMAIN ord : ord[l] = v
NodeLevel(f, ord) ==
    IF f.sup = {} THEN None ELSE SetMin({LevelOf(ord, v) : v \in f.sup})
Cofactor(f, v, b) ==
    LET S == f.sup \ {v}
    IN  Norm(S, {Restrict(a, S) : a \in {x \in f.sat : x[v] = b}})
CofactorFalse(f, ord) == Cofactor(f, ord[NodeLevel(f, ord)], 0)
CofactorTrue(f, ord)  == Cofactor(f, ord[NodeLevel(f, ord)], 1)

\* sat_count(vars): the terminal true weighs 2^vars and every inner node halves the
\* sum of its two children
RECURSIVE SatCount(_, _, _)
SatCount(f, nvars, ord) ==
    IF f = BddFalse THEN 0
    ELSE IF f = BddTrue THEN Pow2(nvars)
    ELSE (SatCount(CofactorFalse(f, ord), nvars, ord)
          + SatCount(CofactorTrue(f, ord), nvars, ord)) \div 2

\* node_count(): the nodes reachable from the root, the terminals included
RECURSIVE Nodes(_, _)
Nodes(f, ord) ==
    IF f.sup = {} THEN {f}
    ELSE {f} \cup Nodes(CofactorFalse(f, ord), ord) \cup Nodes(CofactorTrue(f, ord), ord)
NodeCount(f, ord) == Cardinality(Nodes(f, ord))

----------------------------------------------------------------------------
(* The DIMACS file: a sequence of lines.  A line is a record with its kind *)
(* k, the count n of a header and its tokens toks; a token is an integer   *)
(* (ok) or a word int() rejects.                                           *)
(*   "skip"  blank line, '%' line, or a 'c' comment other than 'c vo '     *)
(*   "vo"    'c vo id id ...'                                              *)
(*   "p"     'p cnf n m'                                                   *)
(*   "pbad"  'p cnf' followed by a word int() rejects                      *)
(*   "cl"    any other line: whitespace-separated tokens                   *)

Tok(v) == [ok |-> TRUE, val |-> v]
BadTok == [ok |-> FALSE, val |-> 0]
SkipLine      == [k |-> "skip", n |-> 0, toks |-> <<>>]
HeaderLine(n) == [k |-> "p",    n |-> n, toks |-> <<>>]
BadHeaderLine == [k |-> "pbad", n |-> 0, toks |-> <<>>]
VoLine(ts)    == [k |-> "vo",   n |-> 0, toks |-> ts]
ClauseLine(ts) == [k |-> "cl",  n |-> 0, toks |-> ts]

Ints(ts) == [k \in 1 .. Len(ts) |-> ts[k].val]
AllOk(ts) == \A k \in 1 .. Len(ts) : ts[k].ok
IsNotZero(t) == ~(t.ok /\ t.val = 0)

\* the body of the loop over the lines of the file, on the parser's locals
ParseLine(st, line) ==
    IF st.raised THEN st
    ELSE IF line.k = "skip" THEN st
    ELSE IF line.k = "vo" THEN
        IF AllOk(line.toks) THEN [st EXCEPT !.var_order = Ints(line.toks)]
        ELSE [st EXCEPT !.raised = TRUE]
    ELSE IF line.k = "p" THEN [st EXCEPT !.num_vars = line.n]
    ELSE IF line.k = "pbad" THEN [st EXCEPT !.raised = TRUE]
    ELSE LET kept == SelectSeq(line.toks, IsNotZero)
         IN  IF AllOk(kept) /\ kept # <<>>
             THEN [st EXCEPT !.clauses = Append(@, Ints(kept))]
             ELSE st

RECURSIVE ParseLines(_, _)
ParseLines(f, k) ==
    IF k = 0 THEN [num_vars |-> 0, clauses |-> <<>>, var_order |-> <<>>, raised |-> FALSE]
    ELSE ParseLine(ParseLines(f, k - 1), f[k])
parse_dimacs(f) == ParseLines(f, Len(f))

----------------------------------------------------------------------------
(* ConfigSystemAnalyzer.__init__ *)

IsKnownId(n, id) == id \in 1 .. n
\* final_order: the ids of var_order that name a variable, as 0-based indices
RECURSIVE FinalOrder(_, _)
FinalOrder(vo, n) ==
    IF vo = <<>> THEN <<>>
    ELSE IF IsKnownId(n, Head(vo)) THEN <<Head(vo) - 1>> \o FinalOrder(Tail(vo), n)
    ELSE FinalOrder(Tail(vo), n)
InSeq(x, s) == \E k \in 1 .. Len(s) : s[k] = x
RECURSIVE RemainingFrom(_, _, _)
RemainingFrom(i, n, fo) ==
    IF i >= n THEN <<>>
    ELSE IF InSeq(i, fo) THEN RemainingFrom(i + 1, n, fo)
    ELSE <<i>> \o RemainingFrom(i + 1, n, fo)
RemainingVars(n, fo) == RemainingFrom(0, n, fo)
\* the list handed to set_var_order
OrderArg(vo, n) == LET fo == FinalOrder(vo, n) IN fo \o RemainingVars(n, fo)
IdentityOrder(n) == [l \in Range(n) |-> l]
IsPermutation(s, n) == Len(s) = n /\ \A v \in Range(n) : \E k \in 1 .. n : s[k] = v
\* the manager's order after __init__: the default one when no order was given
ManagerOrder(vo, n) == IF vo # <<>> THEN SeqToList(OrderArg(vo, n)) ELSE IdentityOrder(n)
\* set_var_order rejects a list that names a variable twice
OrderRejected(vo, n) == vo # <<>> /\ ~IsPermutation(OrderArg(vo, n), n)

Lit(i, val) == IF val = 1 THEN BddVar(i) ELSE BddNot(BddVar(i))
\* variant: the lower comparison is strict, variable 0 is taken for out of range
InRange_ZeroExcluded(lit, n) == 0 < Abs(lit) - 1 /\ Abs(lit) - 1 < n
InRange(lit, n) == 0 <= Abs(lit) - 1 /\ Abs(lit) - 1 < n
\* a literal built without its sign
LitBdd_SignDropped(lit) == BddVar(Abs(lit) - 1)
LitBdd(lit) == Lit(Abs(lit) - 1, IF lit > 0 THEN 1 ELSE 0)
RECURSIVE ClauseBdd(_, _, _)
ClauseBdd(clause, k, n) ==
    IF k = 0 THEN BddFalse
    ELSE IF InRange(clause[k], n)
         THEN BddOr(ClauseBdd(clause, k - 1, n), LitBdd(clause[k]))
         ELSE ClauseBdd(clause, k - 1, n)
RECURSIVE BuildFrom(_, _, _)
BuildFrom(cls, k, n) ==
    IF k = 0 THEN BddTrue
    ELSE BddAnd(BuildFrom(cls, k - 1, n), ClauseBdd(cls[k], Len(cls[k]), n))
build_bdd(cls, n) == BuildFrom(cls, Len(cls), n)

----------------------------------------------------------------------------
(* Input files *)

Lits(maxv) == {l \in (-maxv) .. maxv : l # 0}
\* clause lines '<l1> ... <lk> 0' with k literals on increasing variables
RECURSIVE LitSeqs(_, _)
LitSeqs(maxv, len) ==
    IF len = 0 THEN {<<>>}
    ELSE LET shorter == LitSeqs(maxv, len - 1)
         IN  shorter \cup
             {Append(s, l) : s \in {x \in shorter : Len(x) = len - 1},
                             l \in Lits(maxv)}
Increasing(s) == \A k \in 1 .. (Len(s) - 1) : Abs(s[k]) < Abs(s[k + 1])
ToksOf(s) == [k \in 1 .. Len(s) |-> Tok(s[k])]
ClauseLines(maxv, len) ==
    {ClauseLine(Append(ToksOf(s), Tok(0))) : s \in {x \in LitSeqs(maxv, len) : x # <<>> /\ Increasing(x)}}
RECURSIVE LineSeqs(_, _)
LineSeqs(lines, len) ==
    IF len = 0 THEN {<<>>}
    ELSE LET shorter == LineSeqs(lines, len - 1)
         IN  shorter \cup
             {Append(s, l) : s \in {x \in shorter : Len(x) = len - 1}, l \in lines}
\* clause lists in one fixed order of their lines (the order of the clauses does not
\* change their conjunction)
RECURSIVE LexLeq(_, _)
LexLeq(s, t) ==
    IF s = <<>> THEN TRUE
    ELSE IF t = <<>> THEN FALSE
    ELSE IF Head(s).val # Head(t).val THEN Head(s).val < Head(t).val
    ELSE LexLeq(Tail(s), Tail(t))
SortedLines(x) == \A k \in 1 .. (Len(x) - 1) : LexLeq(x[k].toks, x[k + 1].toks)
ClauseLists(maxv, len, count) ==
    {x \in LineSeqs(ClauseLines(maxv, len), count) : SortedLines(x)}
\* 'c vo' lines of up to len distinct ids of 1..maxv
Distinct(s) == \A a, b \in 1 .. Len(s) : a # b => s[a] # s[b]
IdSeqs(maxv, len) ==
    {s \in LitSeqs(maxv, len) : s # <<>> /\ Distinct(s) /\ \A k \in 1 .. Len(s) : s[k] > 0}
\* every order of 1..maxv
RECURSIVE PermSeqs(_)
PermSeqs(S) ==
    IF S = {} THEN {<<>>}
    ELSE UNION {{<<x>> \o s : s \in PermSeqs(S \ {x})} : x \in S}
VoLines(maxv, len) == {VoLine(ToksOf(s)) : s \in IdSeqs(maxv, len)}
Headers(maxv) == {<<>>} \cup {<<HeaderLine(n)>> : n \in 0 .. maxv}
VoParts(maxv, len) == {<<>>} \cup {<<l>> : l \in VoLines(maxv, len)}

\* the files the reports are analysed on: an optional order comment, an optional
\* header, then the clause lines
AnalysisFiles ==
    {v \o h \o c : v \in VoParts(MaxVars, MaxVoLen), h \in Headers(MaxVars),
                   c \in ClauseLists(MaxVars, MaxClauseLen, MaxClauses)}

----------------------------------------------------------------------------
(* The state after ConfigSystemAnalyzer(file_path) returned *)

IdleReports ==
    /\ res_i = NoResult /\ res_ii = NoResult /\ res_iv = NoResult /\ res_v = NoResult
    /\ iv_i = 0 /\ iv_j = 0 /\ total_interactions = 0 /\ sat_tests = 0
    /\ universe = {} /\ uncovered = {} /\ cover_set = <<>> /\ pair_to_cover = <<>>
    /\ bdd_func = BddFalse /\ current = BddFalse /\ assignment = <<>>
    /\ processed_levels = {} /\ solution = NoSample /\ caller = "none"
    /\ path_num = 1 /\ path_den = 1
    /\ var_index_1_based = 0 /\ attempts = 0 /\ samples = {}
    /\ res_iii = NoRatio
    /\ build_phi = BddFalse /\ build_pos = 0
NoBatch == batch = <<>> /\ file_idx = 0 /\ all_results = <<>>
Idle ==
    /\ IdleReports
    /\ urs_k = 0
    /\ NoBatch

Constructed(f) ==
    LET p == parse_dimacs(f)
    IN  /\ ~p.raised
        /\ ~OrderRejected(p.var_order, p.num_vars)
        /\ file = f
        /\ num_vars = p.num_vars
        /\ clauses = p.clauses
        /\ var_order = p.var_order
        /\ order = ManagerOrder(p.var_order, p.num_vars)
        /\ phi_bdd = build_bdd(p.clauses, p.num_vars)

\* lines 217-223: the calls __main__ makes on the analyzer.  report_iii, which
\* only reads the analyzer, is followed on its own in SpecURS and SpecCalls.
MainCalls == <<"report_i", "report_ii", "report_iv", "report_v">>
\* a report returns: the next call of the caller, if any, is made
Return ==
    /\ pc' = (IF todo = <<>> THEN "done" ELSE Head(todo))
    /\ todo' = (IF todo = <<>> THEN <<>> ELSE Tail(todo))

Init ==
    /\ \E f \in AnalysisFiles : Constructed(f)
    /\ pc = Head(MainCalls) /\ todo = Tail(MainCalls)
    /\ Idle

----------------------------------------------------------------------------
(* report_i_bdd_nodes, report_ii_valid_configurations *)

report_i(phi, ord) == NodeCount(phi, ord)
\* a count over the variables below the root's level only, as the sampler counts
report_ii_BelowRoot(phi, n, ord) ==
    SatCount(phi, n - (IF NodeLevel(phi, ord) = None THEN 0 ELSE NodeLevel(phi, ord)), ord)
report_ii(phi, n, ord) == SatCount(phi, n, ord)

ReportI ==
    /\ pc = "report_i"
    /\ res_i' = report_i(phi_bdd, order)
    /\ Return
    /\ UNCHANGED <<bldstate, ursstate, bstate, analyzer, res_ii, res_iv, res_v, ivstate, vstate, sstate>>

ReportII ==
    /\ pc = "report_ii"
    /\ res_ii' = report_ii(phi_bdd, num_vars, order)
    /\ Return
    /\ UNCHANGED <<bldstate, ursstate, bstate, analyzer, res_i, res_iv, res_v, ivstate, vstate, sstate>>

----------------------------------------------------------------------------
(* report_iv_pairwise_interactions: the loops over i < j, one pair per step *)

\* a test that leaves phi out of the conjunction
PairFeasible_WithoutPhi(phi, i, val_i, j, val_j) ==
    Satisfiable(BddAnd(Lit(i, val_i), Lit(j, val_j)))
\* (phi & lit_i & lit_j).satisfiable()
PairFeasible(phi, i, val_i, j, val_j) ==
    Satisfiable(BddAnd(BddAnd(phi, Lit(i, val_i)), Lit(j, val_j)))
\* the fourth test repeating the polarities of the third
PairCount_RepeatedTest(phi, i, j) ==
      (IF PairFeasible(phi, i, 1, j, 1) THEN 1 ELSE 0)
    + (IF PairFeasible(phi, i, 1, j, 0) THEN 1 ELSE 0)
    + (IF PairFeasible(phi, i, 0, j, 1) THEN 1 ELSE 0)
    + (IF PairFeasible(phi, i, 0, j, 1) THEN 1 ELSE 0)
\* what one pair adds to total_interactions: the four tests of lines 148-151
PairCount(phi, i, j) ==
      (IF PairFeasible(phi, i, 1, j, 1) THEN 1 ELSE 0)
    + (IF PairFeasible(phi, i, 1, j, 0) THEN 1 ELSE 0)
    + (IF PairFeasible(phi, i, 0, j, 1) THEN 1 ELSE 0)
    + (IF PairFeasible(phi, i, 0, j, 0) THEN 1 ELSE 0)
\* the variables the pair loops range over
PairVars(n) == Range(n)
HasPair(i, j, n) == i \in PairVars(n) /\ j \in PairVars(n) /\ i < j
NextI(i, j, n) == IF j + 1 < n THEN i ELSE i + 1
NextJ(i, j, n) == IF j + 1 < n THEN j + 1 ELSE i + 2

IV_Begin ==
    /\ pc = "report_iv"
    /\ iv_i' = 0 /\ iv_j' = 1
    /\ total_interactions' = 0
    /\ sat_tests' = 0
    /\ pc' = "iv_loop"
    /\ UNCHANGED <<bldstate, todo, ursstate, bstate, analyzer, results, vstate, sstate>>

IV_Pair ==
    /\ pc = "iv_loop"
    /\ HasPair(iv_i, iv_j, num_vars)
    /\ total_interactions' = total_interactions + PairCount(phi_bdd, iv_i, iv_j)
    /\ sat_tests' = sat_tests + 4
    /\ iv_i' = NextI(iv_i, iv_j, num_vars)
    /\ iv_j' = NextJ(iv_i, iv_j, num_vars)
    /\ UNCHANGED <<bldstate, todo, ursstate, bstate, pc, analyzer, results, vstate, sstate>>

IV_End ==
    /\ pc = "iv_loop"
    /\ ~HasPair(iv_i, iv_j, num_vars)
    /\ res_iv' = total_interactions
    /\ Return
    /\ UNCHANGED <<bldstate, ursstate, bstate, analyzer, res_i, res_ii, res_v, ivstate, vstate, sstate>>

----------------------------------------------------------------------------
(* _sample_one_uniform(bdd_func) *)

\* a comparison that also takes the false branch for r = low_count
TakesLow_Inclusive(r, low_count) == r <= low_count
\* random.randrange(total) < low_count
TakesLow(r, low_count) == r < low_count
\* the position of assignment written for a node tested at var_level
AssignIndex(var_level, ord) == var_level
LowCount(cur, n, ord) ==
    SatCount(CofactorFalse(cur, ord), n - NodeLevel(cur, ord) - 1, ord)
HighCount(cur, n, ord) ==
    SatCount(CofactorTrue(cur, ord), n - NodeLevel(cur, ord) - 1, ord)
IsTerminal(f) == f = BddTrue \/ f = BddFalse

\* a sampler without the satisfiability test of line 84
S_Enter_NoSatTest(f, who) ==
    /\ bdd_func' = f
    /\ caller' = who
    /\ path_num' = 1 /\ path_den' = 1
    /\ assignment' = [l \in Range(num_vars) |-> 0]
    /\ current' = f
    /\ processed_levels' = {}
    /\ solution' = NoSample
    /\ pc' = "sampling"
\* lines 84-87: the call, up to the first test of the while loop
S_Enter(f, who) ==
    /\ bdd_func' = f
    /\ caller' = who
    /\ path_num' = 1 /\ path_den' = 1
    /\ IF ~Satisfiable(f)
       THEN /\ solution' = NoSample
            /\ pc' = "sampled"
            /\ UNCHANGED <<current, assignment, processed_levels>>
       ELSE /\ assignment' = [l \in Range(num_vars) |-> 0]
            /\ current' = f
            /\ processed_levels' = {}
            /\ solution' = NoSample
            /\ pc' = "sampling"

\* lines 89-109: one iteration of the while loop
S_Descend ==
    /\ pc = "sampling"
    /\ ~IsTerminal(current)
    /\ LET var_level  == NodeLevel(current, order)
           low        == CofactorFalse(current, order)
           high       == CofactorTrue(current, order)
           low_count  == LowCount(current, num_vars, order)
           high_count == HighCount(current, num_vars, order)
           total      == low_count + high_count
       IN  IF total = 0
           THEN /\ solution' = NoSample
                /\ pc' = "sampled"
                /\ UNCHANGED <<current, assignment, processed_levels, path_num, path_den>>
           ELSE \E r \in 0 .. (total - 1) :
                /\ IF TakesLow(r, low_count)
                   THEN /\ assignment' = [assignment EXCEPT ![AssignIndex(var_level, order)] = 0]
                        /\ current' = low
                        /\ path_num' = path_num
                              * Cardinality({x \in 0 .. (total - 1) : TakesLow(x, low_count)})
                   ELSE /\ assignment' = [assignment EXCEPT ![AssignIndex(var_level, order)] = 1]
                        /\ current' = high
                        /\ path_num' = path_num
                              * Cardinality({x \in 0 .. (total - 1) : ~TakesLow(x, low_count)})
                /\ path_den' = path_den * total
                /\ processed_levels' = processed_levels \cup {var_level}
                /\ UNCHANGED <<solution, pc>>
    /\ UNCHANGED <<bldstate, todo, ursstate, bstate, analyzer, results, ivstate, vstate, bdd_func, caller>>

\* lines 111-114: the positions not processed get random.randint(0, 1)
FillPositions(n, processed) == Range(n) \ processed
S_Return ==
    /\ pc = "sampling"
    /\ IsTerminal(current)
    /\ \E fill \in [FillPositions(num_vars, processed_levels) -> Bits] :
          solution' = Sample([i \in Range(num_vars) |->
                                 IF i \in DOMAIN fill THEN fill[i] ELSE assignment[i]])
    /\ path_den' = path_den * Pow2(Cardinality(FillPositions(num_vars, processed_levels)))
    /\ pc' = "sampled"
    /\ UNCHANGED <<bldstate, todo, ursstate, bstate, analyzer, results, ivstate, vstate, bdd_func, current, assignment,
                   processed_levels, caller, path_num>>

----------------------------------------------------------------------------
(* report_iii_urs_ratio *)
MaxK == 2       \* largest number k of samples asked of report_iii
RetryFactor == 20
RetryBase == 100

KArgs == 0 .. MaxK
\* a loop that makes one more attempt than range(k * 20 + 100)
Budget_OneMore(k) == k * RetryFactor + RetryBase + 1
\* line 122: range(k * 20 + 100)
Budget(k) == k * RetryFactor + RetryBase
\* a count of the samples whose entry is 0 taken for k1
K1_ZeroEntries(smp, idx0) == Cardinality({c \in smp : c[idx0] = 0})
\* lines 129-139, for the samples gathered and the 1-based index asked for
K1(smp, idx0) == Cardinality({c \in smp : c[idx0] = 1})
RatioOf(smp, idx1, n) ==
    IF smp = {} THEN Ratio(0, 0)
    ELSE LET var_index_0_based == idx1 - 1
         IN  IF 0 <= var_index_0_based /\ var_index_0_based < n
             THEN LET k1 == K1(smp, var_index_0_based)
                      k0 == Cardinality(smp) - k1
                  IN  IF k0 # 0 THEN Ratio(k1, k0) ELSE RatioInf(k1)
             ELSE RatioNA

\* lines 116-121: the call, with urs_k the k the caller passes; an unsatisfiable
\* formula returns "0/0"
III_Begin ==
    /\ pc = "report_iii"
    /\ samples' = {}
    /\ attempts' = 0
    /\ IF ~Satisfiable(phi_bdd)
       THEN /\ \E idx \in 0 .. (MaxVars + 1) : var_index_1_based' = idx
            /\ res_iii' = Ratio(0, 0)
            /\ Return
       ELSE /\ pc' = "iii_loop"
            /\ UNCHANGED <<todo, var_index_1_based, res_iii>>
    /\ UNCHANGED <<bldstate, urs_k, bstate, analyzer, results, ivstate, vstate, sstate>>

\* lines 122-124: one more iteration of the for loop, up to the call of the sampler
III_Attempt ==
    /\ pc = "iii_loop"
    /\ attempts < Budget(urs_k)
    /\ Cardinality(samples) < urs_k
    /\ attempts' = attempts + 1
    /\ S_Enter(phi_bdd, "iii")
    /\ UNCHANGED <<bldstate, todo, bstate, analyzer, results, ivstate, vstate,
                   urs_k, var_index_1_based, samples, res_iii>>

\* lines 125-126: the sample is stored if it is truthy and new
III_Collect ==
    /\ pc = "sampled"
    /\ caller = "iii"
    /\ samples' = (IF Truthy(solution) /\ solution.val \notin samples
                   THEN samples \cup {solution.val} ELSE samples)
    /\ pc' = "iii_loop"
    /\ UNCHANGED <<bldstate, todo, bstate, analyzer, results, ivstate, vstate, sstate,
                   urs_k, var_index_1_based, attempts, res_iii>>

\* lines 122-123, 129-140: the loop is left (break, or range exhausted) and the
\* ratio of the variable asked for is returned; the index is read here only
III_End ==
    /\ pc = "iii_loop"
    /\ attempts >= Budget(urs_k) \/ Cardinality(samples) >= urs_k
    /\ \E idx \in 0 .. (MaxVars + 1) :
          /\ var_index_1_based' = idx
          /\ res_iii' = RatioOf(samples, idx, num_vars)
    /\ Return
    /\ UNCHANGED <<bldstate, bstate, analyzer, results, ivstate, vstate, sstate,
                   urs_k, attempts, samples>>

----------------------------------------------------------------------------
(* report_v_pairwise_cover_size *)

\* tuple(sorted((p1, p2)))
Sorted2(p1, p2) ==
    IF p1[1] < p2[1] \/ (p1[1] = p2[1] /\ p1[2] <= p2[2]) THEN <<p1, p2>> ELSE <<p2, p1>>
\* a universe built from one loop over the values: both variables get the same value
Universe_EqualValues(phi, n) ==
    {Sorted2(<<q[1], q[2]>>, <<q[3], q[4]>>) :
        q \in {x \in PairVars(n) \X Bits \X PairVars(n) \X Bits :
                  x[1] < x[3] /\ x[2] = x[4] /\ PairFeasible(phi, x[1], x[2], x[3], x[4])}}
\* lines 159-168: the universe of pairs to cover
Universe(phi, n) ==
    {Sorted2(<<q[1], q[2]>>, <<q[3], q[4]>>) :
        q \in {x \in PairVars(n) \X Bits \X PairVars(n) \X Bits :
                  x[1] < x[3] /\ PairFeasible(phi, x[1], x[2], x[3], x[4])}}
\* a sweep that compares the first literal of the obligation only
Covers_FirstLiteralOnly(sol, p) == sol[p[1][1]] = p[1][2]
\* line 187
Covers(sol, p) == sol[p[1][1]] = p[1][2] /\ sol[p[2][1]] = p[2][2]
\* lines 176-178
Restricted(phi, p) == BddAnd(BddAnd(phi, Lit(p[1][1], p[1][2])), Lit(p[2][1], p[2][2]))

V_Begin ==
    /\ pc = "report_v"
    /\ uncovered' = Universe(phi_bdd, num_vars)
    /\ universe' = uncovered'
    /\ cover_set' = <<>>
    /\ pair_to_cover' = <<>>
    /\ IF uncovered' = {}
       THEN res_v' = 0 /\ Return
       ELSE res_v' = res_v /\ pc' = "v_loop" /\ todo' = todo
    /\ UNCHANGED <<bldstate, ursstate, bstate, analyzer, res_i, res_ii, res_iv, ivstate, sstate>>

\* a cover loop that keeps the restriction in self.phi_bdd
V_Pick_KeepsRestriction ==
    /\ pc = "v_loop"
    /\ uncovered # {}
    /\ Len(cover_set) < MaxCover
    /\ \E p \in uncovered :
          /\ pair_to_cover' = p
          /\ phi_bdd' = Restricted(phi_bdd, p)
          /\ S_Enter(Restricted(phi_bdd, p), "v")
    /\ UNCHANGED <<bldstate, todo, ursstate, bstate, file, num_vars, clauses, var_order, order,
                   results, ivstate, universe, uncovered, cover_set>>
\* lines 173-180: the next pair and the call of the sampler on its restriction
V_Pick ==
    /\ pc = "v_loop"
    /\ uncovered # {}
    /\ Len(cover_set) < MaxCover
    /\ \E p \in uncovered :
          /\ pair_to_cover' = p
          /\ S_Enter(Restricted(phi_bdd, p), "v")
    /\ UNCHANGED <<bldstate, todo, ursstate, bstate, analyzer, results, ivstate, universe, uncovered, cover_set>>

\* a sweep that compares with the configuration stored by the iteration before
SweepWith_Stale(cov, sol) == IF cov = <<>> THEN sol ELSE cov[Len(cov)]
\* lines 185-189: the configuration the sweep compares the obligations with, for
\* the cover set before the append and the solution just sampled
SweepWith(cov, sol) == sol
\* lines 182-194: the sampler has returned
V_Sweep ==
    /\ pc = "sampled"
    /\ caller = "v"
    /\ IF Truthy(solution)
       THEN /\ cover_set' = Append(cover_set, solution.val)
            /\ uncovered' = uncovered \ {p \in uncovered :
                                              Covers(SweepWith(cover_set, solution.val), p)}
       ELSE /\ uncovered' = uncovered \ {pair_to_cover}
            /\ UNCHANGED cover_set
    /\ pc' = "v_loop"
    /\ UNCHANGED <<bldstate, todo, ursstate, bstate, analyzer, results, ivstate, universe, pair_to_cover, sstate>>

V_End ==
    /\ pc = "v_loop"
    /\ uncovered = {}
    /\ res_v' = Len(cover_set)
    /\ Return
    /\ UNCHANGED <<bldstate, ursstate, bstate, analyzer, res_i, res_ii, res_iv, ivstate, vstate, sstate>>

----------------------------------------------------------------------------
Next ==
    \/ ReportI
    \/ ReportII
    \/ IV_Begin
    \/ IV_Pair
    \/ IV_End
    \/ V_Begin
    \/ V_Pick
    \/ S_Descend
    \/ S_Return
    \/ V_Sweep
    \/ V_End

Spec == Init /\ [][Next]_vars

----------------------------------------------------------------------------
(* _sample_one_uniform called on any function over the analyzer's variables *)

AllFunctions(n) == {Norm(Range(n), T) : T \in SUBSET Asg(Range(n))}
SamplerFiles ==
    {v \o h : v \in VoParts(MaxVars, MaxVars), h \in Headers(MaxVars)}

InitSampler ==
    /\ \E f \in SamplerFiles : Constructed(f)
    /\ pc = "call" /\ todo = <<>>
    /\ Idle

SampleCall ==
    /\ pc = "call"
    /\ \E g \in AllFunctions(num_vars) : S_Enter(g, "call")
    /\ UNCHANGED <<bldstate, todo, ursstate, bstate, analyzer, results, ivstate, vstate>>

NextSampler ==
    \/ SampleCall
    \/ S_Descend
    \/ S_Return

SpecSampler == InitSampler /\ [][NextSampler]_vars

----------------------------------------------------------------------------
(* report_iii_urs_ratio called on a fresh analyzer *)
UrsVars == 2    \* variables declared by the files report_iii is followed on

UrsFiles ==
    {v \o h \o c : v \in VoParts(UrsVars, MaxVoLen), h \in Headers(UrsVars),
                   c \in ClauseLists(UrsVars + 1, MaxClauseLen, 1)}

InitURS ==
    /\ \E f \in UrsFiles : Constructed(f)
    /\ pc = "report_iii" /\ todo = <<>>
    /\ urs_k \in KArgs
    /\ IdleReports /\ NoBatch

NextURS ==
    \/ III_Begin
    \/ III_Attempt
    \/ S_Descend
    \/ S_Return
    \/ III_Collect
    \/ III_End

SpecURS == InitURS /\ [][NextURS]_vars

----------------------------------------------------------------------------
(* The reports called on one analyzer in different orders, report_i and *)
(* report_ii a second time after the others                              *)
CallsK == 1     \* the k passed to report_iii in these call sequences

Arrangements(S) == UNION {PermSeqs(T) : T \in SUBSET S}
CallScripts ==
    {<<"report_i", "report_ii">> \o mid \o <<"report_i", "report_ii">> :
        mid \in Arrangements({"report_iii", "report_iv", "report_v"})}

InitCalls ==
    /\ \E f \in UrsFiles : Constructed(f)
    /\ \E script \in CallScripts : pc = Head(script) /\ todo = Tail(script)
    /\ urs_k = CallsK
    /\ IdleReports /\ NoBatch

NextCalls ==
    \/ ReportI
    \/ ReportII
    \/ III_Begin
    \/ III_Attempt
    \/ III_Collect
    \/ III_End
    \/ IV_Begin
    \/ IV_Pair
    \/ IV_End
    \/ V_Begin
    \/ V_Pick
    \/ S_Descend
    \/ S_Return
    \/ V_Sweep
    \/ V_End

SpecCalls == InitCalls /\ [][NextCalls]_vars

----------------------------------------------------------------------------
(* Formulas over more than 50 variables: report_iv and the universe of report_v *)

LargeFiles ==
    {h \o c : h \in {<<HeaderLine(BigVars - 1)>>, <<HeaderLine(BigVars)>>},
              c \in ClauseLists(2, 1, 1)}

InitLarge ==
    /\ \E f \in LargeFiles : Constructed(f)
    /\ pc = "report_iv" /\ todo = <<"report_v">>
    /\ Idle

NextLarge ==
    \/ IV_Begin
    \/ IV_Pair
    \/ IV_End
    \/ V_Begin

SpecLarge == InitLarge /\ [][NextLarge]_vars

----------------------------------------------------------------------------
(* Loading: ConfigSystemAnalyzer(file_path) as called by __main__ *)

MaxLineToks  == 3     \* tokens on an enumerated clause line of a file to load
MaxLoadLines == 1     \* clause lines of an enumerated file to load
MaxLoadVo    == 2     \* ids on the 'c vo' line of an enumerated file to load

LoadTokens == {Tok(l) : l \in (-MaxVars) .. MaxVars} \cup {BadTok}
LoadClauseLines ==
    {ClauseLine(ts) : ts \in {x \in LineSeqs(LoadTokens, MaxLineToks) : x # <<>>}}
\* 'c vo' lines whose ids may repeat, be 0 or exceed the count of the header
LoadVoParts ==
    {<<>>} \cup {<<VoLine(ts)>> :
                    ts \in {x \in LineSeqs({Tok(id) : id \in 0 .. (MaxVars + 1)}, MaxLoadVo) :
                               x # <<>>}}
LoadFiles ==
    {v \o h \o c : v \in LoadVoParts,
                   h \in Headers(MaxVars) \cup {<<BadHeaderLine>>},
                   c \in LineSeqs(LoadClauseLines, MaxLoadLines)}

InitLoad ==
    /\ file \in LoadFiles
    /\ pc = "load" /\ todo = Tail(MainCalls)
    /\ num_vars = 0 /\ clauses = <<>> /\ var_order = <<>>
    /\ order = <<>> /\ phi_bdd = BddFalse
    /\ Idle

\* lines 216, 33-51: the constructor returns, or what it raises reaches the
\* except clause of __main__
Construct ==
    /\ pc = "load"
    /\ LET p == parse_dimacs(file)
       IN  IF p.raised
           THEN /\ pc' = "error"
                /\ UNCHANGED <<num_vars, clauses, var_order, order, phi_bdd>>
           ELSE IF OrderRejected(p.var_order, p.num_vars)
           THEN /\ pc' = "error"
                /\ num_vars' = p.num_vars
                /\ clauses' = p.clauses
                /\ var_order' = p.var_order
                /\ UNCHANGED <<order, phi_bdd>>
           ELSE /\ pc' = "report_i"
                /\ num_vars' = p.num_vars
                /\ clauses' = p.clauses
                /\ var_order' = p.var_order
                /\ order' = ManagerOrder(p.var_order, p.num_vars)
                /\ phi_bdd' = build_bdd(p.clauses, p.num_vars)
    /\ UNCHANGED <<bldstate, todo, ursstate, bstate, file, results, ivstate, vstate, sstate>>

NextLoad ==
    \/ Construct
    \/ ReportI
    \/ ReportII

SpecLoad == InitLoad /\ [][NextLoad]_vars

----------------------------------------------------------------------------
(* __main__: the loop over files_to_process *)
BatchLen == 2   \* number of names in files_to_process

Missing == [exists |-> FALSE, content |-> <<>>]
Present(f) == [exists |-> TRUE, content |-> f]
BatchContents ==
    {h \o c : h \in Headers(UrsVars) \cup {<<BadHeaderLine>>},
              c \in ClauseLists(UrsVars, 1, 1)}
BatchEntries == {Missing} \cup {Present(f) : f \in BatchContents}

InitBatch ==
    /\ batch \in [1 .. BatchLen -> BatchEntries]
    /\ file_idx = 0 /\ all_results = <<>>
    /\ pc = "next_file" /\ todo = <<>>
    /\ file = <<>>
    /\ num_vars = 0 /\ clauses = <<>> /\ var_order = <<>>
    /\ order = <<>> /\ phi_bdd = BddFalse
    /\ urs_k = 0
    /\ IdleReports

\* lines 209-215: the next name of the list; a name without a file is skipped
B_Next ==
    /\ pc = "next_file"
    /\ IF file_idx = Len(batch)
       THEN /\ pc' = "finished"
            /\ UNCHANGED <<file, file_idx, todo>>
       ELSE /\ file_idx' = file_idx + 1
            /\ IF batch[file_idx + 1].exists
               THEN /\ file' = batch[file_idx + 1].content
                    /\ pc' = "load"
                    /\ todo' = Tail(MainCalls)
               ELSE /\ pc' = "next_file"
                    /\ UNCHANGED <<file, todo>>
    /\ num_vars' = 0 /\ clauses' = <<>> /\ var_order' = <<>>
    /\ order' = <<>> /\ phi_bdd' = BddFalse
    /\ res_i' = NoResult /\ res_ii' = NoResult /\ res_iv' = NoResult /\ res_v' = NoResult
    /\ iv_i' = 0 /\ iv_j' = 0 /\ total_interactions' = 0 /\ sat_tests' = 0
    /\ universe' = {} /\ uncovered' = {} /\ cover_set' = <<>> /\ pair_to_cover' = <<>>
    /\ bdd_func' = BddFalse /\ current' = BddFalse /\ assignment' = <<>>
    /\ processed_levels' = {} /\ solution' = NoSample /\ caller' = "none"
    /\ path_num' = 1 /\ path_den' = 1
    /\ UNCHANGED <<bldstate, ursstate>>
    /\ UNCHANGED <<batch, all_results>>

\* the results dict of lines 217-223
ResultsDict == [i |-> res_i, ii |-> res_ii, iv |-> res_iv, v |-> res_v]
\* an except clause that stores what the reports returned before the error
B_Except_StoresEntry ==
    /\ pc = "error"
    /\ all_results' = [i \in DOMAIN all_results \cup {file_idx} |->
                          IF i = file_idx THEN ResultsDict ELSE all_results[i]]
    /\ pc' = "next_file"
    /\ UNCHANGED <<bldstate, todo, ursstate, batch, file_idx, analyzer, results, ivstate, vstate, sstate>>
\* line 224: the entry of the file is stored
B_Record ==
    /\ pc = "done"
    /\ all_results' = [i \in DOMAIN all_results \cup {file_idx} |->
                          IF i = file_idx THEN ResultsDict ELSE all_results[i]]
    /\ pc' = "next_file"
    /\ UNCHANGED <<bldstate, todo, ursstate, batch, file_idx, analyzer, results, ivstate, vstate, sstate>>
\* lines 226-228: the error of this file is printed and the loop goes on
B_Except ==
    /\ pc = "error"
    /\ pc' = "next_file"
    /\ UNCHANGED <<bldstate, todo, ursstate, bstate, analyzer, results, ivstate, vstate, sstate>>

NextBatch ==
    \/ B_Next
    \/ Construct
    \/ ReportI
    \/ ReportII
    \/ IV_Begin
    \/ IV_Pair
    \/ IV_End
    \/ V_Begin
    \/ V_Pick
    \/ S_Descend
    \/ S_Return
    \/ V_Sweep
    \/ V_End
    \/ B_Record
    \/ B_Except

SpecBatch == InitBatch /\ [][NextBatch]_vars

----------------------------------------------------------------------------
(* The constructor followed clause by clause through the loop of _build_bdd *)
MaxBuildClauses == 3    \* clause lines of a file whose construction is followed

BuildFiles ==
    {h \o c : h \in Headers(UrsVars),
              c \in LineSeqs(ClauseLines(UrsVars, MaxClauseLen), MaxBuildClauses)}

InitBuild ==
    /\ file \in BuildFiles
    /\ pc = "construct" /\ todo = Tail(MainCalls)
    /\ num_vars = 0 /\ clauses = <<>> /\ var_order = <<>>
    /\ order = <<>> /\ phi_bdd = BddFalse
    /\ Idle

\* lines 33-47, 53-55: the file is parsed, the order applied and the loop of
\* _build_bdd entered with phi = true
Construct_Begin ==
    /\ pc = "construct"
    /\ LET p == parse_dimacs(file)
       IN  IF p.raised
           THEN /\ pc' = "error"
                /\ UNCHANGED <<num_vars, clauses, var_order, order, bldstate>>
           ELSE IF OrderRejected(p.var_order, p.num_vars)
           THEN /\ pc' = "error"
                /\ num_vars' = p.num_vars
                /\ clauses' = p.clauses
                /\ var_order' = p.var_order
                /\ UNCHANGED <<order, bldstate>>
           ELSE /\ pc' = "build"
                /\ num_vars' = p.num_vars
                /\ clauses' = p.clauses
                /\ var_order' = p.var_order
                /\ order' = ManagerOrder(p.var_order, p.num_vars)
                /\ build_phi' = BddTrue
                /\ build_pos' = 0
    /\ UNCHANGED <<todo, ursstate, bstate, file, phi_bdd, results, ivstate, vstate, sstate>>

\* a loop that leaves at the first clause met with phi already false
MoreClauses_UntilFalse(pos, cls, running) == pos < Len(cls) /\ running # BddFalse
\* line 56: the for loop has a next clause
MoreClauses(pos, cls, running) == pos < Len(cls)

\* lines 56-63: one clause: its disjunction is built and conjoined to phi
Build_Clause ==
    /\ pc = "build"
    /\ MoreClauses(build_pos, clauses, build_phi)
    /\ build_phi' = BddAnd(build_phi,
                           ClauseBdd(clauses[build_pos + 1], Len(clauses[build_pos + 1]), num_vars))
    /\ build_pos' = build_pos + 1
    /\ UNCHANGED <<pc, todo, ursstate, bstate, analyzer, results, ivstate, vstate, sstate>>

\* lines 64-65, 51: the loop is over, phi is returned and stored in self.phi_bdd
Build_Return ==
    /\ pc = "build"
    /\ ~MoreClauses(build_pos, clauses, build_phi)
    /\ phi_bdd' = build_phi
    /\ pc' = "report_i"
    /\ UNCHANGED <<bldstate, todo, ursstate, bstate, file, num_vars, clauses, var_order, order,
                   results, ivstate, vstate, sstate>>

NextBuild ==
    \/ Construct_Begin
    \/ Build_Clause
    \/ Build_Return
    \/ ReportI
    \/ ReportII

SpecBuild == InitBuild /\ [][NextBuild]_vars

----------------------------------------------------------------------------
(* Reference semantics of the analysed formula, from the clauses alone *)

Configs(n) == [Range(n) -> Bits]
LitHolds(cfg, lit, n) ==
    Abs(lit) \in 1 .. n /\ cfg[Abs(lit) - 1] = (IF lit > 0 THEN 1 ELSE 0)
ClauseHolds(cfg, clause, n) == \E k \in 1 .. Len(clause) : LitHolds(cfg, clause[k], n)
ValidConfig(cfg, cls, n) == \A k \in 1 .. Len(cls) : ClauseHolds(cfg, cls[k], n)
ValidConfigs(cls, n) == {cfg \in Configs(n) : ValidConfig(cfg, cls, n)}
\* a configuration satisfies the obligation ((i, val_i), (j, val_j))
ObligationMet(cfg, p) == cfg[p[1][1]] = p[1][2] /\ cfg[p[2][1]] = p[2][2]
\* the feasible combinations (i, val_i, j, val_j), i < j
FeasibleCombos(cls, n) ==
    {q \in Range(n) \X Bits \X Range(n) \X Bits :
        /\ q[1] < q[3]
        /\ \E cfg \in ValidConfigs(cls, n) : cfg[q[1]] = q[2] /\ cfg[q[3]] = q[4]}
ReportVReturned == res_v # NoResult

----------------------------------------------------------------------------
(* Claims *)

\* C1: cover completeness. When the formula has a valid configuration and
\* report_v_pairwise_cover_size has returned, every obligation of the universe built
\* at its start is satisfied by some configuration stored in cover_set.
C1_CoverComplete ==
    (ReportVReturned /\ ValidConfigs(clauses, num_vars) # {}) =>
        \A p \in universe : \E k \in 1 .. Len(cover_set) : ObligationMet(cover_set[k], p)
C1_Witness ==
    /\ ReportVReturned
    /\ num_vars = 3
    /\ Cardinality(universe) > 4
    /\ Len(cover_set) >= 3
    /\ res_v = Len(cover_set)

\* C4 as stated: for all inputs, valid_configuration_count == 0 <=> phi_bdd is the
\* constant false <=> report_iv and report_v both return 0.
C4_Original ==
    (res_ii # NoResult /\ res_iv # NoResult /\ ReportVReturned) =>
        /\ (res_ii = 0) <=> (phi_bdd = BddFalse)
        /\ (phi_bdd = BddFalse) <=> (res_iv = 0 /\ res_v = 0)
\* C4 amended: the count is 0 exactly when phi_bdd is the constant false, and
\* report_iv and report_v both return 0 exactly when phi_bdd is the constant false or
\* the formula has fewer than two variables.
C4_Amended ==
    /\ res_ii # NoResult => ((res_ii = 0) <=> (phi_bdd = BddFalse))
    /\ (res_iv # NoResult /\ ReportVReturned) =>
          ((res_iv = 0 /\ res_v = 0) <=> (phi_bdd = BddFalse \/ num_vars < 2))
    /\ (res_iv # NoResult /\ phi_bdd = BddFalse) => res_iv = 0
    /\ (ReportVReturned /\ phi_bdd = BddFalse) => res_v = 0
C4_Witness ==
    /\ num_vars >= 2 /\ clauses # <<>>
    /\ phi_bdd = BddFalse
    /\ res_ii = 0 /\ res_iv = 0 /\ res_v = 0

\* C5: the worked example.  With 2 variables and the clauses (x1 OR x2) and
\* (NOT x1 OR NOT x2) the valid configurations are (1,0) and (0,1), report_ii returns
\* 2, report_iv returns 2, report_v returns 2 whatever the sampler draws, and
\* report_i returns a positive number.
Config2(a, b) == [i \in Range(2) |-> IF i = 0 THEN a ELSE b]
IsWorkedExample ==
    /\ num_vars = 2
    /\ Len(clauses) = 2
    /\ {clauses[1], clauses[2]} = {<<1, 2>>, <<-1, -2>>}
C5_WorkedExample ==
    IsWorkedExample =>
        /\ {cfg \in Configs(2) : Eval(phi_bdd, cfg)} = {Config2(1, 0), Config2(0, 1)}
        /\ res_i # NoResult => res_i > 0
        /\ res_ii # NoResult => res_ii = 2
        /\ res_iv # NoResult => res_iv = 2
        /\ ReportVReturned => res_v = 2
C5_Witness ==
    /\ IsWorkedExample
    /\ var_order = <<>>
    /\ pc = "done"
    /\ res_i > 0 /\ res_ii = 2 /\ res_iv = 2 /\ res_v = 2

\* C6: valid_configuration_count does not depend on the variable order: whatever
\* 'c vo' line the same clauses and variable count are loaded with, report_ii
\* returns the value it has just returned here.
C6_CountOrderInvariant ==
    (pc = "report_iv" /\ res_ii # NoResult) =>
        \A vo \in {<<>>} \cup PermSeqs(1 .. MaxVars) :
            report_ii(build_bdd(clauses, num_vars), num_vars, ManagerOrder(vo, num_vars))
                = res_ii
\* an order under which node_count differs
C6_Witness ==
    /\ pc = "report_iv" /\ res_i # NoResult /\ res_ii # NoResult
    /\ \E vo \in PermSeqs(1 .. MaxVars) :
          /\ ManagerOrder(vo, num_vars) # order
          /\ report_i(build_bdd(clauses, num_vars), ManagerOrder(vo, num_vars)) # res_i

\* C7: when report_iv_pairwise_interactions returns, its value is the number of combinations
\* (i, val_i, j, val_j), i < j, that some valid configuration of the formula has.
C7_InteractionCount ==
    (pc = "report_v" /\ res_iv # NoResult) => res_iv = Cardinality(FeasibleCombos(clauses, num_vars))
C7_Witness ==
    /\ num_vars = 3
    /\ pc = "report_v" /\ res_iv # NoResult
    /\ res_iv > 0 /\ res_iv < 12

\* C2: every tuple _sample_one_uniform returns for a satisfiable function has
\* num_vars entries in {0,1} and satisfies the function when entry i is read as the
\* value of variable i, whatever variable order was applied at construction.
C2_SampleSatisfies ==
    (pc = "sampled" /\ caller = "call" /\ Satisfiable(bdd_func) /\ solution.some) =>
        /\ DOMAIN solution.val = Range(num_vars)
        /\ \A i \in Range(num_vars) : solution.val[i] \in Bits
        /\ Eval(bdd_func, solution.val)

\* C3: for a function with 2^k satisfying assignments and no don't-care variable,
\* every tuple the sampler returns is a satisfying assignment and the product of the
\* branch fractions on its path is 1/2^k.
IsPowerOfTwo(c) == \E k \in 0 .. MaxVars + 1 : c = Pow2(k)
FullSat(f, n) == {a \in Configs(n) : Eval(f, a)}
NoDontCare(f, n) ==
    \A a \in FullSat(f, n) : \A v \in Range(n) : ~Eval(f, [a EXCEPT ![v] = 1 - a[v]])
C3_Uniform ==
    (/\ pc = "sampled" /\ caller = "call" /\ solution.some
     /\ IsPowerOfTwo(Cardinality(FullSat(bdd_func, num_vars)))
     /\ NoDontCare(bdd_func, num_vars)) =>
        /\ Eval(bdd_func, solution.val)
        /\ path_num * Cardinality(FullSat(bdd_func, num_vars)) = path_den

\* C8: report_iv and the universe of report_v consider only pairs among the
\* M = min(N, 50) most frequent variables: report_iv makes at most 4*M*(M-1)/2
\* satisfiability tests and counts no more combinations than that, and no more than
\* M variables occur in the obligations of the universe.
C8_TopFifty ==
    LET M == Min2(num_vars, 50)
    IN  /\ sat_tests <= 4 * ((M * (M - 1)) \div 2)
        /\ res_iv # NoResult => res_iv <= 4 * ((M * (M - 1)) \div 2)
        /\ Cardinality({p[1][1] : p \in universe} \cup {p[2][1] : p \in universe}) <= M

\* C9: the variable count of the analyzer is max(count of the header, largest
\* literal magnitude of a clause), so that no literal of a clause is discarded.
DeclaredCount(f) ==
    LET hs == {k \in 1 .. Len(f) : f[k].k = "p"}
    IN  IF hs = {} THEN 0 ELSE f[SetMax(hs)].n
LiteralsSeen(f) ==
    UNION {{f[k].toks[t].val : t \in {x \in 1 .. Len(f[k].toks) : f[k].toks[x].ok}} :
              k \in {x \in 1 .. Len(f) : f[x].k = "cl"}}
LargestLiteral(f) ==
    LET m == {Abs(l) : l \in LiteralsSeen(f)} IN IF m = {} THEN 0 ELSE SetMax(m)
Loaded == pc \notin {"load", "error"}
C9_EffectiveCount ==
    Loaded =>
        /\ num_vars = Max2(DeclaredCount(file), LargestLiteral(file))
        /\ \A c \in 1 .. Len(clauses) : \A k \in 1 .. Len(clauses[c]) :
              InRange(clauses[c][k], num_vars)

\* C10: loading fails exactly when no variable count can be derived, i.e. the file
\* has no header and no clause literal; every other file loads.
CountDerivable(f) ==
    \/ \E k \in 1 .. Len(f) : f[k].k = "p"
    \/ LargestLiteral(f) > 0
C10_ParseError ==
    pc # "load" => ((pc = "error") <=> ~CountDerivable(file))

\* C11: _build_bdd skips a literal whose variable index is outside [0, num_vars)
\* without raising: phi_bdd is the conjunction, over all clauses in order, of the
\* disjunction of exactly the in-range literals of the clause.
HasOutOfRange(clause, n) == \E k \in 1 .. Len(clause) : Abs(clause[k]) > n
HasInRange(clause, n) == \E k \in 1 .. Len(clause) : Abs(clause[k]) \in 1 .. n
C11_OutOfRangeSkipped ==
    pc = "report_i" =>
        {cfg \in Configs(num_vars) : Eval(phi_bdd, cfg)} = ValidConfigs(clauses, num_vars)
\* a clause mixing an out-of-range and an in-range literal, followed by a later
\* clause, both of which constrain phi_bdd
C11_Witness ==
    /\ pc = "report_i" /\ Len(clauses) = 2
    /\ HasOutOfRange(clauses[1], num_vars) /\ HasInRange(clauses[1], num_vars)
    /\ HasInRange(clauses[2], num_vars)
    /\ phi_bdd # build_bdd(<<clauses[1]>>, num_vars)
    /\ phi_bdd # build_bdd(<<clauses[2]>>, num_vars)
    /\ Satisfiable(phi_bdd)

\* C12: a clause line with an unparsable token yields the clause of the line's
\* remaining parsable literals; only the bad token is skipped and the later lines
\* are still parsed.
IsParsableLiteral(t) == t.ok /\ t.val # 0
ParsableLiterals(line) == Ints(SelectSeq(line.toks, IsParsableLiteral))
RECURSIVE TokenSkippingClauses(_, _)
TokenSkippingClauses(f, k) ==
    IF k = 0 THEN <<>>
    ELSE IF f[k].k = "cl" /\ ParsableLiterals(f[k]) # <<>>
         THEN Append(TokenSkippingClauses(f, k - 1), ParsableLiterals(f[k]))
         ELSE TokenSkippingClauses(f, k - 1)
C12_BadTokenSkipped ==
    Loaded => clauses = TokenSkippingClauses(file, Len(file))

\* C13: report_iii_urs_ratio(k) calls the sampler at most 20*k+100 times, makes no
\* call once k distinct assignments are gathered, stores at most one new assignment
\* per call, and when the attempts are used up with fewer than k it returns,
\* with a ratio over the samples it has.
C13_BoundedSampling ==
    /\ attempts <= 20 * urs_k + 100
    /\ Cardinality(samples) <= urs_k
    /\ Cardinality(samples) <= attempts
    /\ (pc \in {"sampling", "sampled"} /\ caller = "iii") => Cardinality(samples) < urs_k
    /\ (pc = "iii_loop" /\ attempts >= 20 * urs_k + 100) => ENABLED III_End
    /\ (pc = "done" /\ attempts = 20 * urs_k + 100) =>
          /\ res_iii # NoRatio
          /\ (samples # {} /\ var_index_1_based \in 1 .. num_vars) =>
                res_iii.k1 + res_iii.k0 = Cardinality(samples)
\* the attempts are used up with one of the two samples asked for
C13_Witness ==
    /\ pc = "done" /\ urs_k = 2 /\ attempts = 140
    /\ Cardinality(samples) = 1
    /\ var_index_1_based \in 1 .. num_vars
    /\ res_iii.k1 + res_iii.k0 = 1

\* C14: report_iii_urs_ratio returns "k1/k0", "k1/0 (inf)" or the N/A string; N/A
\* exactly when the 1-based index is outside [1, N]; otherwise k1 and k0 count the
\* collected samples with that entry 1 and 0, and "(inf)" is used exactly when k0 = 0.
OnesAt(smp, idx1) == Cardinality({c \in smp : c[idx1 - 1] = 1})
ZerosAt(smp, idx1) == Cardinality({c \in smp : c[idx1 - 1] = 0})
RatioAsClaimed ==
    /\ res_iii.form \in {"k1/k0", "k1/0 (inf)", "N/A (Variable not in model)"}
    /\ (res_iii.form = "N/A (Variable not in model)") <=> (var_index_1_based \notin 1 .. num_vars)
    /\ var_index_1_based \in 1 .. num_vars =>
          /\ res_iii.k1 = OnesAt(samples, var_index_1_based)
          /\ res_iii.k0 = ZerosAt(samples, var_index_1_based)
          /\ res_iii.k1 + res_iii.k0 = Cardinality(samples)
          /\ (res_iii.form = "k1/0 (inf)") <=> (res_iii.k0 = 0)
C14_Original == res_iii # NoRatio => RatioAsClaimed
\* C14 (amended): when no sample was collected (unsatisfiable formula, k = 0, or no
\* variable) the returned string is "0/0" whatever the index; otherwise as claimed.
C14_Amended ==
    res_iii # NoRatio =>
        /\ (samples = {}) <=> (~Satisfiable(phi_bdd) \/ urs_k = 0 \/ num_vars = 0)
        /\ IF samples = {} THEN res_iii = Ratio(0, 0) ELSE RatioAsClaimed
\* "0/0" returned for an index outside [1, N], and the ratio of two samples
C14_Witness ==
    /\ pc = "done" /\ res_iii = Ratio(0, 0)
    /\ var_index_1_based \notin 1 .. num_vars
    /\ ~Satisfiable(phi_bdd) /\ num_vars > 0

\* C15: in the batch an error raised while loading or analysing one file ends that
\* file only: every file handled so far has an entry in all_results exactly when it
\* exists and loaded without error, so the files after a failed one are analysed,
\* and no step removes or changes an entry already stored.
HasBadHeader(f) == \E k \in 1 .. Len(f) : f[k].k = "pbad"
EntriesAsClaimed ==
    /\ pc \in {"next_file", "finished"} =>
          \A i \in 1 .. file_idx :
              (i \in DOMAIN all_results) <=>
                  (batch[i].exists /\ ~HasBadHeader(batch[i].content))
    /\ pc = "finished" => file_idx = Len(batch)
    /\ pc = "error" => file_idx \notin DOMAIN all_results
EntriesKept ==
    \A i \in DOMAIN all_results :
        i \in DOMAIN all_results' /\ all_results'[i] = all_results[i]
C15_ErrorIsolated == []EntriesAsClaimed /\ [][EntriesKept]_vars
\* the first file fails to load and the second has its entry
C15_Witness ==
    /\ pc = "finished"
    /\ batch[1].exists /\ HasBadHeader(batch[1].content)
    /\ DOMAIN all_results = {2}
    /\ all_results[2].ii > 0

\* C16: for an unsatisfiable formula no report raises and each returns its vacuous
\* result: report_ii 0, report_iii "0/0" without a call of the sampler, report_iv 0,
\* report_v 0 with an empty cover set.
C16_UnsatVacuous ==
    ~Satisfiable(phi_bdd) =>
        /\ pc # "error"
        /\ res_ii \in {NoResult, 0}
        /\ res_iii \in {NoRatio, Ratio(0, 0)}
        /\ res_iv \in {NoResult, 0}
        /\ res_v \in {NoResult, 0}
        /\ cover_set = <<>> /\ universe = {}
        /\ attempts = 0 /\ samples = {}
        /\ caller = "none" /\ pc \notin {"sampling", "sampled"}
\* every report has returned for an unsatisfiable formula over two variables
C16_Witness ==
    /\ ~Satisfiable(phi_bdd) /\ num_vars = 2
    /\ pc = "done"
    /\ res_ii = 0 /\ res_iii = Ratio(0, 0) /\ res_iv = 0 /\ res_v = 0
    /\ sat_tests = 4

\* C17: report_i and report_ii leave phi_bdd and the analyzer as they are, and a
\* later call of either, after any calls of reports (iii)-(v), returns the value
\* the first call returned.
MetricsKept ==
    /\ res_i # NoResult => res_i' = res_i
    /\ res_ii # NoResult => res_ii' = res_ii
    /\ pc \in {"report_i", "report_ii"} => UNCHANGED <<analyzer, ursstate, ivstate, vstate, sstate>>
C17_MetricsRepeatable == [][MetricsKept]_vars
\* both metrics returned a second time after reports (iii), (iv) and (v)
C17_Witness ==
    /\ pc = "done" /\ todo = <<>>
    /\ res_i # NoResult /\ res_ii > 1
    /\ res_iii.form = "k1/0 (inf)" /\ res_iv > 0 /\ res_v > 1

\* C18: the list final_order + remaining_vars handed to set_var_order holds each
\* index of [0, num_vars) exactly once, whatever ids the 'c vo' line holds.
OccurrencesIn(s, v) == Cardinality({k \in 1 .. Len(s) : s[k] = v})
C18_OrderIsPermutation ==
    (pc # "load" /\ var_order # <<>>) =>
        /\ Len(OrderArg(var_order, num_vars)) = num_vars
        /\ \A v \in Range(num_vars) : OccurrencesIn(OrderArg(var_order, num_vars), v) = 1

\* C19: the cover loop of report_v is bounded for every formula and every applied
\* order: every iteration takes at least one obligation out of uncovered, so the
\* configurations stored and the obligations left never exceed the universe
\* together, and cover_set_size <= |universe|.
C19_CoverLoopBounded ==
    /\ Len(cover_set) + Cardinality(uncovered) <= Cardinality(universe)
    /\ res_v # NoResult => res_v <= Cardinality(universe)

\* C20: in an iteration of the cover loop that obtains a witness, uncovered
\* afterwards is uncovered before minus exactly the obligations the witness sampled
\* in that iteration satisfies; no step of the loop adds an obligation back, and the
\* cover set changes only by the append of that witness.
InCoverLoop == pc \in {"v_loop", "sampling", "sampled"} /\ caller' = "v"
SweepStep == pc = "sampled" /\ caller = "v" /\ pc' = "v_loop"
SampleAndSweep ==
    /\ SweepStep =>
          /\ bdd_func = Restricted(phi_bdd, pair_to_cover)
          /\ pair_to_cover \in uncovered
    /\ (SweepStep /\ Truthy(solution)) =>
          /\ uncovered' = uncovered \ {p \in uncovered : ObligationMet(solution.val, p)}
          /\ cover_set' = Append(cover_set, solution.val)
    /\ InCoverLoop =>
          /\ uncovered' \subseteq uncovered
          /\ \/ cover_set' = cover_set
             \/ SweepStep /\ Truthy(solution) /\ cover_set' = Append(cover_set, solution.val)
C20_SampleAndSweep == [][SampleAndSweep]_vars
\* two witnesses stored, the second having removed some but not all of what the
\* first left
C20_Witness ==
    /\ pc = "v_loop" /\ Len(cover_set) = 2
    /\ uncovered # {}
    /\ \E p \in universe \ uncovered :
          ObligationMet(cover_set[2], p) /\ ~ObligationMet(cover_set[1], p)

\* C22: once the running conjunction of _build_bdd is the constant false, no
\* further clause is conjoined: every clause the loop has gone through but the
\* last met a running conjunction that was still satisfiable.
Prefix(cls, j) == SubSeq(cls, 1, j)
C22_EarlyExit ==
    pc \in {"build", "report_i", "report_ii"} =>
        \A j \in 1 .. (build_pos - 1) : build_bdd(Prefix(clauses, j), num_vars) # BddFalse

\* C23: the function _build_bdd returns is the conjunction over all parsed clauses
\* of the disjunction of the clause's literals, and equals the result of the
\* batched fold (the clauses of each batch conjoined, then the batch conjoined
\* into the running total) for every batch size.  Functions are compared by their
\* satisfying assignments over the variables the literals and the header name.
MaxBatch == 3   \* largest batch size of the batched fold compared with
LiteralMagnitudes(cls) ==
    UNION {{Abs(cls[c][k]) : k \in 1 .. Len(cls[c])} : c \in 1 .. Len(cls)}
VarsNamed(cls, n) == SetMax(LiteralMagnitudes(cls) \cup {n})
LitTrue(cfg, lit) == cfg[Abs(lit) - 1] = (IF lit > 0 THEN 1 ELSE 0)
ClauseModels(clause, m) ==
    {cfg \in Configs(m) : \E k \in 1 .. Len(clause) : LitTrue(cfg, clause[k])}
RECURSIVE ConjoinModels(_, _, _, _)
\* the clauses from..to conjoined, starting from all assignments
ConjoinModels(cls, from, to, m) ==
    IF from > to THEN Configs(m)
    ELSE ConjoinModels(cls, from, to - 1, m) \cap ClauseModels(cls[to], m)
RECURSIVE BatchedFold(_, _, _, _)
\* the running total after the batches that start at or before clause from
BatchedFold(cls, from, size, m) ==
    IF from > Len(cls) THEN Configs(m)
    ELSE ConjoinModels(cls, from, Min2(from + size - 1, Len(cls)), m)
             \cap BatchedFold(cls, from + size, size, m)
ReturnedModels(m) == {cfg \in Configs(m) : Eval(phi_bdd, cfg)}
C23_BuilderIsBatchedFold ==
    pc \in {"report_i", "report_ii"} =>
        LET m == VarsNamed(clauses, num_vars)
        IN  /\ ReturnedModels(m) = ConjoinModels(clauses, 1, Len(clauses), m)
            /\ \A size \in 1 .. MaxBatch :
                  ReturnedModels(m) = BatchedFold(clauses, 1, size, m)

\* C24: _sample_one_uniform returns None for an unsatisfiable function and never
\* for a satisfiable one: at every node it visits low_count + high_count > 0.
C24_NoneOnlyForUnsat ==
    /\ (pc = "sampled" /\ caller = "call") => (solution.some <=> Satisfiable(bdd_func))
    /\ (pc = "sampling" /\ caller = "call" /\ ~IsTerminal(current)) =>
          /\ Satisfiable(current)
          /\ LowCount(current, num_vars, order) + HighCount(current, num_vars, order) > 0
\* a sample of a function with one satisfying assignment over three variables: one
\* cofactor count is 0 at every node of the path
C24_Witness ==
    /\ pc = "sampled" /\ caller = "call" /\ num_vars = 3
    /\ solution.some
    /\ Cardinality(FullSat(bdd_func, num_vars)) = 1
    /\ processed_levels = Range(num_vars)

\* C25: the descent of _sample_one_uniform visits strictly increasing levels, each
\* at most once, makes at most num_vars iterations, and for a satisfiable input
\* never steps into the constant false and ends at the constant true.
DescentStep == pc = "sampling" /\ pc' = "sampling" /\ processed_levels' # processed_levels
DescentInv ==
    (pc \in {"sampling", "sampled"} /\ caller = "call" /\ Satisfiable(bdd_func)) =>
        /\ current # BddFalse
        /\ processed_levels \subseteq Range(num_vars)
        /\ ~IsTerminal(current) =>
              \A l \in processed_levels : l < NodeLevel(current, order)
        /\ pc = "sampled" => current = BddTrue
DescentAct ==
    DescentStep =>
        /\ NodeLevel(current, order) \notin processed_levels
        /\ processed_levels' = processed_levels \cup {NodeLevel(current, order)}
        /\ \A l \in processed_levels : l < NodeLevel(current, order)
        /\ current' # BddFalse
C25_DescentTerminates == []DescentInv /\ [][DescentAct]_vars
\* a descent of num_vars iterations
C25_Witness ==
    /\ pc = "sampled" /\ caller = "call" /\ num_vars = 3
    /\ solution.some /\ current = BddTrue
    /\ processed_levels = Range(num_vars)
    /\ Cardinality(FullSat(bdd_func, num_vars)) = 4

\* C26: after the descent every variable not tested on the path can receive 0 or 1
\* independently of the others, and every variable tested on the path has in the
\* returned tuple the branch value chosen for it (the descent records the branch
\* taken at level l in assignment[l]); entry v of the tuple is the value of variable v.
TestedVars == {order[l] : l \in processed_levels}
UntestedVars == Range(num_vars) \ TestedVars
BranchChosen(v) == assignment[LevelOf(order, v)]
FillGives(g) == S_Return /\ \A v \in DOMAIN g : solution'.val[v] = g[v]
C26_DontCareFill ==
    /\ (pc = "sampling" /\ caller = "call" /\ IsTerminal(current)) =>
          \A g \in [UntestedVars -> Bits] : ENABLED FillGives(g)
    /\ (pc = "sampled" /\ caller = "call" /\ solution.some) =>
          \A v \in TestedVars : solution.val[v] = BranchChosen(v)

\* C27: for an unsatisfiable formula report_iv and report_v return 0 without a
\* conjunction or satisfiability test for any pair of variables.
C27_UnsatNoServiceCalls ==
    ~Satisfiable(phi_bdd) =>
        /\ sat_tests = 0
        /\ res_iv \in {NoResult, 0}
        /\ res_v \in {NoResult, 0}

\* C28: every configuration in cover_set satisfies every clause of the formula, and
\* the one just appended meets the obligation it was sampled for, under every order.
C28_CoverConfigsValid ==
    /\ \A k \in 1 .. Len(cover_set) : ValidConfig(cover_set[k], clauses, num_vars)
    /\ (pc = "v_loop" /\ cover_set # <<>> /\ pair_to_cover # <<>>) =>
          ObligationMet(cover_set[Len(cover_set)], pair_to_cover)

\* C29: the universe report_v builds holds every feasible combination, once, as
\* ((i, val_i), (j, val_j)) with i < j, and has as many elements as
\* report_iv_pairwise_interactions returned on the same analyzer.
UniverseBuilt == (pc = "v_loop" /\ cover_set = <<>>) \/ (pc = "done" /\ res_v # NoResult)
C29_UniverseCanonical ==
    (UniverseBuilt /\ res_iv # NoResult) =>
        /\ universe = {<<<<q[1], q[2]>>, <<q[3], q[4]>>>> : q \in FeasibleCombos(clauses, num_vars)}
        /\ \A p \in universe : p[1][1] < p[2][1]
        /\ Cardinality(universe) = res_iv
C29_Witness ==
    /\ pc = "v_loop" /\ cover_set = <<>> /\ num_vars = 3
    /\ res_iv = 7 /\ Cardinality(universe) = 7

\* C30: parse_dimacs takes the literal 0 as the end of a clause: over the integers
\* of the clause lines in file order, every maximal run ended by a 0 is one clause
\* (several on a line, or one over several lines), a 0 with no literal before it is
\* the empty clause, and a last run without a 0 is a clause too.
RECURSIVE IntegersOf(_, _)
IntegersOf(f, k) ==
    IF k = 0 THEN <<>>
    ELSE IF f[k].k = "cl" THEN IntegersOf(f, k - 1) \o Ints(f[k].toks)
    ELSE IntegersOf(f, k - 1)
RECURSIVE RunsFrom(_, _, _)
RunsFrom(s, i, run) ==
    IF i > Len(s) THEN (IF run = <<>> THEN <<>> ELSE <<run>>)
    ELSE IF s[i] = 0 THEN <<run>> \o RunsFrom(s, i + 1, <<>>)
    ELSE RunsFrom(s, i + 1, Append(run, s[i]))
AllIntegers(f) == \A k \in 1 .. Len(f) : f[k].k = "cl" => AllOk(f[k].toks)
C30_ZeroTerminates ==
    (Loaded /\ AllIntegers(file)) =>
        clauses = RunsFrom(IntegersOf(file, Len(file)), 1, <<>>)

====
